---- MODULE Spec2Model ----
(***************************************************************************)
(* Model of turbodataminer/ui/scoping/scopetable.py: the table data model  *)
(* BaseScopeDataModel and the ScopeTable view with its bulk menu actions.  *)
(*                                                                         *)
(* Python objects live on a heap: `models` holds every BaseScopeDataModel  *)
(* instance, `tables` holds every ScopeTable with the heap index of its    *)
(* data_model.  models[DefaultModelId] is the instance that the default    *)
(* argument of ScopeTable.__init__ creates once, when the class is defined.*)
(* A Python value is a record [type, v]; a raised exception is a record    *)
(* whose type is the exception's name.                                     *)
(***************************************************************************)
EXTENDS Integers, Sequences, FiniteSets, TLC

VARIABLES models, tables, last, fired

vars == <<models, tables, last, fired>>

(* ------------------------------ bounds ------------------------------ *)
MaxRows == 2
MaxCols == 2
MaxTables == 2
MaxIndex == 4

(* --------------------------- Python values --------------------------- *)
PyBool(b) == [type |-> "bool", v |-> IF b THEN "True" ELSE "False"]
PyInt(n) == [type |-> "int", v |-> ToString(n)]
PyFloat(n) == [type |-> "float", v |-> ToString(n)]
PyStr(s) == [type |-> "str", v |-> s]
None == [type |-> "NoneType", v |-> "None"]
IndexError == [type |-> "IndexError", v |-> "raised"]
TypeError == [type |-> "TypeError", v |-> "raised"]
NameError == [type |-> "NameError", v |-> "raised"]

Raised(x) == x.type \in {"IndexError", "TypeError", "NameError"}

\* truth value of a Python object, as `not value` tests it
Truthy(x) ==
    CASE x.type = "bool" -> x.v = "True"
      [] x.type \in {"int", "float"} -> x.v # "0"
      [] x.type = "str" -> x.v # ""
      [] OTHER -> FALSE

\* What the global name `time` is bound to by `import time`.  It is a module
\* object, which is no class; an interpreter that implements its built-in
\* modules as host classes may hand out a type object, of which no cell
\* value is an instance.  Both are kept.
TimeBindings == {"module time", "type time"}

\* isinstance(value, cls) for the second arguments get_type_at passes; bool
\* is a subclass of int.  A second argument that is no class, type or tuple
\* raises TypeError.
isinstance(value, cls) ==
    CASE cls = "bool" -> PyBool(value.type = "bool")
      [] cls = "float" -> PyBool(value.type = "float")
      [] cls = "int" -> PyBool(value.type \in {"int", "bool"})
      [] cls = "type time" -> PyBool(FALSE)
      [] OTHER -> TypeError

\* list[i] with Python's indexing: a negative index counts from the end
InRange(list, i) == -Len(list) <= i /\ i < Len(list)
Item(list, i) == IF i >= 0 THEN list[i + 1] ELSE list[Len(list) + i + 1]

\* range(a, b) as the sequence a, a+1, ..., b-1
Range(a, b) == [k \in 1..(IF b > a THEN b - a ELSE 0) |-> a + k - 1]

(* --------------------------- notifications --------------------------- *)
\* What a listener sees when a notification is emitted: the event and, at
\* that moment, the reported counts and the length of every stored row.
Notification(kind, m, first, second) ==
    [kind |-> kind, first |-> first, second |-> second,
     row_count |-> m.row_count, column_count |-> m.column_count,
     widths |-> [r \in 1..Len(m.content) |-> Len(m.content[r])]]

fireTableStructureChanged(m) == <<Notification("structure", m, 0, 0)>>
fireTableRowsInserted(m, first, lastRow) == <<Notification("inserted", m, first, lastRow)>>
fireTableCellUpdated(m, row, col) == <<Notification("cell", m, row, col)>>

(* ------------------------- BaseScopeDataModel ------------------------- *)
\* for item in content: row = [False]; row += list(item); append(row)
FlaggedRows(rows) == [i \in 1..Len(rows) |-> <<PyBool(FALSE)>> \o rows[i]]

BaseScopeDataModelBadCount(header, content) ==
    LET h == <<PyStr("Process")>> \o header
        c == FlaggedRows(content)
        m == [header |-> h, content |-> c,
              column_count |-> Len(header), row_count |-> Len(c)]
    IN [model |-> m,
        fired |-> fireTableStructureChanged(m) \o
                  (IF m.row_count > 0
                   THEN fireTableRowsInserted(m, 0, m.row_count - 1) ELSE <<>>)]

\* __init__(self, header=[], content=[])
BaseScopeDataModel(header, content) ==
    LET h == <<PyStr("Process")>> \o header
        c == FlaggedRows(content)
        m == [header |-> h, content |-> c,
              column_count |-> Len(h), row_count |-> Len(c)]
    IN [model |-> m,
        fired |-> fireTableStructureChanged(m) \o
                  (IF m.row_count > 0
                   THEN fireTableRowsInserted(m, 0, m.row_count - 1) ELSE <<>>)]

set_header(self, columns) ==
    LET m == [self EXCEPT !.header = <<PyStr("Process")>> \o columns,
                          !.column_count = Len(columns),
                          !.row_count = Len(self.content)]
    IN [model |-> m, fired |-> fireTableStructureChanged(m)]

set_contentKeepsRows(self, rows) ==
    LET c == self.content \o FlaggedRows(rows)
        m == [self EXCEPT !.content = c, !.row_count = Len(c)]
    IN [model |-> m,
        fired |-> IF m.row_count > 0
                  THEN fireTableRowsInserted(m, 0, m.row_count - 1) ELSE <<>>]

set_content(self, rows) ==
    LET c == FlaggedRows(rows)
        m == [self EXCEPT !.content = c, !.row_count = Len(c)]
    IN [model |-> m,
        fired |-> IF m.row_count > 0
                  THEN fireTableRowsInserted(m, 0, m.row_count - 1) ELSE <<>>]

getRowCount(self) == self.row_count

getColumnCount(self) == self.column_count

\* `column_index < len(header)` admits every negative index; header[i] then
\* counts from the end, or raises IndexError, which the except clause
\* swallows before None is returned.
getColumnName(self, column_index) ==
    IF column_index < Len(self.header)
    THEN IF InRange(self.header, column_index)
         THEN Item(self.header, column_index)
         ELSE None
    ELSE None

getValueAt(self, row_index, column_index) ==
    IF ~InRange(self.content, row_index) THEN IndexError
    ELSE LET row == Item(self.content, row_index)
         IN IF ~InRange(row, column_index) THEN IndexError
            ELSE Item(row, column_index)

isCellEditable(self, row_index, column_index) == column_index = 0

\* the cell must exist (the callers below pass rows below row_count)
setValueAt(self, value, row_index, column_index) ==
    LET r == IF row_index >= 0 THEN row_index + 1
             ELSE Len(self.content) + row_index + 1
        row == self.content[r]
        c == IF column_index >= 0 THEN column_index + 1
             ELSE Len(row) + column_index + 1
        m == [self EXCEPT !.content[r][c] = value]
    IN [model |-> m, fired |-> fireTableCellUpdated(m, row_index, column_index)]

\* The type tag (the java.lang class name) or the exception raised; `time`
\* is the binding of the global the fourth test reads.  `Date` is bound
\* nowhere in the module: reading it raises NameError.
get_type_at(self, column_index, time) ==
    IF self.row_count >= 1
    THEN LET value == getValueAt(self, 0, column_index)
             is_time == isinstance(value, time)
         IN IF Raised(value) THEN value
            ELSE IF Truthy(isinstance(value, "bool")) THEN PyStr("Boolean")
            ELSE IF Truthy(isinstance(value, "float")) THEN PyStr("Float")
            ELSE IF Truthy(isinstance(value, "int")) THEN PyStr("Integer")
            ELSE IF Raised(is_time) THEN is_time
            ELSE IF Truthy(is_time) THEN NameError
            ELSE PyStr("String")
    ELSE PyStr("String")

getColumnClass(self, column_index, time) == get_type_at(self, column_index, time)

(* ----------------------------- ScopeTable ----------------------------- *)
\* The default argument `data_model=BaseScopeDataModel()` is evaluated once,
\* when the def statement runs: every ScopeTable() gets this one instance.
DefaultModelId == 1
DefaultModel == BaseScopeDataModel(<<>>, <<>>).model

\* __init__(self, data_model): the table keeps a reference to the model
ScopeTable(heap, data_model) ==
    [models |-> heap, table |-> [data_model |-> data_model]]

\* one more call of the model after the calls so far
Then(st, call) == [model |-> call.model, fired |-> st.fired \o call.fired]
Start(self) == [model |-> self, fired |-> <<>>]

set_model(self, header, rows) ==
    LET a == Then(Start(self), set_header(self, header))
    IN Then(a, set_content(a.model, rows))

\* JTable.convertRowIndexToModel: the row sorter's view-to-model mapping
convertRowIndexToModel(sorter, view_row) == sorter[view_row + 1]

RECURSIVE invert_loop(_, _)
invert_loop(st, rows) ==
    IF rows = <<>> THEN st
    ELSE LET i == Head(rows)
             value == getValueAt(st.model, i, 0)
         IN invert_loop(Then(st, setValueAt(st.model, PyBool(~Truthy(value)), i, 0)),
                        Tail(rows))

RECURSIVE invert_loopSetsTrue(_, _)
invert_loopSetsTrue(st, rows) ==
    IF rows = <<>> THEN st
    ELSE invert_loopSetsTrue(
             Then(st, setValueAt(st.model, PyBool(TRUE), Head(rows), 0)), Tail(rows))

_invert_selection_menu_pressedSetsTrue(self) ==
    invert_loopSetsTrue(Start(self), Range(0, getRowCount(self)))

_invert_selection_menu_pressed(self) ==
    invert_loop(Start(self), Range(0, getRowCount(self)))

RECURSIVE update_loop(_, _, _)
update_loop(st, value, rows) ==
    IF rows = <<>> THEN st
    ELSE update_loop(Then(st, setValueAt(st.model, value, Head(rows), 0)),
                     value, Tail(rows))

_update_all_rowsSkipsLast(self, value) ==
    update_loop(Start(self), value, Range(0, getRowCount(self) - 1))

_update_all_rows(self, value) ==
    update_loop(Start(self), value, Range(0, getRowCount(self)))

_update_selected_rowsNoTranslation(self, value, selected_rows, sorter) ==
    update_loop(Start(self), value, selected_rows)

\* selected_rows: what getSelectedRows() returns, view rows in ascending order
_update_selected_rows(self, value, selected_rows, sorter) ==
    update_loop(Start(self), value,
                [k \in 1..Len(selected_rows) |->
                     convertRowIndexToModel(sorter, selected_rows[k])])

_select_all_menu_pressed(self) == _update_all_rows(self, PyBool(TRUE))
_unselect_all_menu_pressed(self) == _update_all_rows(self, PyBool(FALSE))
_select_all_selected_menu_pressed(self, selected_rows, sorter) ==
    _update_selected_rows(self, PyBool(TRUE), selected_rows, sorter)
_unselect_all_selected_menu_pressed(self, selected_rows, sorter) ==
    _update_selected_rows(self, PyBool(FALSE), selected_rows, sorter)

(* ------------------------------- inputs ------------------------------- *)
Widths == 0..MaxCols

\* headers and rows whose cells differ from column to column
SampleHeaders(w) ==
    {[c \in 1..w |-> PyStr("a" \o ToString(c))],
     [c \in 1..w |-> PyStr("b" \o ToString(c))]}
SampleRows(w) ==
    {[c \in 1..w |-> PyInt(c)], [c \in 1..w |-> PyStr("s" \o ToString(c))]}
SampleContents(w) == UNION {[1..n -> SampleRows(w)] : n \in 0..MaxRows}

\* what the view can hold for a model of n rows
Sorters(n) == {f \in [1..n -> 0..(n - 1)] : \A i, j \in 1..n : f[i] = f[j] => i = j}
RECURSIVE Ascending(_)
Ascending(S) ==
    IF S = {} THEN <<>>
    ELSE LET lo == CHOOSE x \in S : \A y \in S : x <= y
         IN <<lo>> \o Ascending(S \ {lo})
Selections(n) == {Ascending(S) : S \in SUBSET (0..(n - 1))}

ModelOf(t) == models[tables[t].data_model]

(* ------------------------------- actions ------------------------------- *)
\* run one call on the model of table t
Apply(t, call, record) ==
    /\ models' = [models EXCEPT ![tables[t].data_model] = call.model]
    /\ fired' = call.fired
    /\ last' = record
    /\ UNCHANGED tables

\* ScopeTable(BaseScopeDataModel(header, content))
Construct(header, content) ==
    LET made == BaseScopeDataModel(header, content)
        built == ScopeTable(<<DefaultModel, made.model>>, 2)
    IN /\ models = built.models
       /\ tables = <<built.table>>
       /\ fired = made.fired
       /\ last = [op |-> "construct", header |-> header, content |-> content]

SetHeader ==
    \E t \in 1..Len(tables), w \in Widths : \E columns \in SampleHeaders(w) :
        Apply(t, set_header(ModelOf(t), columns),
              [op |-> "set_header", columns |-> columns])

SetContent ==
    \E t \in 1..Len(tables), w \in Widths : \E rows \in SampleContents(w) :
        Apply(t, set_content(ModelOf(t), rows),
              [op |-> "set_content", rows |-> rows])

\* the plugin passes rows that have one cell per header name
SetModel ==
    \E t \in 1..Len(tables), w \in Widths :
        \E header \in SampleHeaders(w), rows \in SampleContents(w) :
            Apply(t, set_model(ModelOf(t), header, rows),
                  [op |-> "set_model", t |-> t, header |-> header, rows |-> rows])

\* the user clicks the checkbox of a row
SetValueAt ==
    \E t \in 1..Len(tables), b \in BOOLEAN :
        \E row \in 0..(getRowCount(ModelOf(t)) - 1) :
            /\ isCellEditable(ModelOf(t), row, 0)
            /\ Apply(t, setValueAt(ModelOf(t), PyBool(b), row, 0),
                     [op |-> "setValueAt", value |-> PyBool(b), row |-> row])

SelectAllMenuPressed ==
    \E t \in 1..Len(tables) :
        Apply(t, _select_all_menu_pressed(ModelOf(t)), [op |-> "select_all", t |-> t])

UnselectAllMenuPressed ==
    \E t \in 1..Len(tables) :
        Apply(t, _unselect_all_menu_pressed(ModelOf(t)), [op |-> "unselect_all", t |-> t])

SelectAllSelectedMenuPressed ==
    \E t \in 1..Len(tables) :
        \E sorter \in Sorters(getRowCount(ModelOf(t))),
           selected_rows \in Selections(getRowCount(ModelOf(t))) :
            Apply(t, _select_all_selected_menu_pressed(ModelOf(t), selected_rows, sorter),
                  [op |-> "select_selected", t |-> t, sorter |-> sorter,
                   selected_rows |-> selected_rows])

UnselectAllSelectedMenuPressed ==
    \E t \in 1..Len(tables) :
        \E sorter \in Sorters(getRowCount(ModelOf(t))),
           selected_rows \in Selections(getRowCount(ModelOf(t))) :
            Apply(t, _unselect_all_selected_menu_pressed(ModelOf(t), selected_rows, sorter),
                  [op |-> "unselect_selected", t |-> t, sorter |-> sorter,
                   selected_rows |-> selected_rows])

\* `last` remembers the model before the first of two inversions in a row
InvertSelectionMenuPressed ==
    \E t \in 1..Len(tables) :
        LET again == last.op = "invert" /\ last.t = t /\ last.count = 1
        IN Apply(t, _invert_selection_menu_pressed(ModelOf(t)),
                 [op |-> "invert", t |-> t,
                  count |-> IF again THEN 2 ELSE 1,
                  orig |-> IF again THEN last.orig ELSE ModelOf(t)])

\* ScopeTable(): the table is bound to the default argument's instance
NewScopeTable ==
    LET built == ScopeTable(models, DefaultModelId)
    IN /\ Len(tables) < MaxTables
       /\ models' = built.models
       /\ tables' = Append(tables, built.table)
       /\ fired' = <<>>
       /\ last' = [op |-> "ScopeTable", t |-> Len(tables) + 1]

\* the view asks for the class of a column
GetColumnClass ==
    \E t \in 1..Len(tables), column_index \in 0..MaxCols, time \in TimeBindings :
        /\ last' = [op |-> "get_type_at", t |-> t, column_index |-> column_index,
                    time |-> time,
                    result |-> getColumnClass(ModelOf(t), column_index, time)]
        /\ fired' = <<>>
        /\ UNCHANGED <<models, tables>>

(* ---------------------------- specifications ---------------------------- *)
\* Spec: the data model's whole interface and the menu actions that touch
\* every row, on a model built from any header and any content.
Init ==
    \E wh \in Widths, wc \in Widths :
        \E header \in SampleHeaders(wh), content \in SampleContents(wc) :
            Construct(header, content)

Next ==
    \/ SetHeader
    \/ SetContent
    \/ SetModel
    \/ SetValueAt
    \/ SelectAllMenuPressed
    \/ UnselectAllMenuPressed
    \/ InvertSelectionMenuPressed

Spec == Init /\ [][Next]_vars

\* SpecView: what a user of ScopeTable can do, with rows that have one cell
\* per header name: set_model, the checkbox and the five menu actions.
InitView ==
    \E w \in Widths :
        \E header \in SampleHeaders(w), content \in SampleContents(w) :
            Construct(header, content)

NextView ==
    \/ SetModel
    \/ SetValueAt
    \/ SelectAllMenuPressed
    \/ UnselectAllMenuPressed
    \/ SelectAllSelectedMenuPressed
    \/ UnselectAllSelectedMenuPressed
    \/ InvertSelectionMenuPressed

SpecView == InitView /\ [][NextView]_vars

\* SpecType: models whose first row holds cells of every kind, and the
\* view's column class queries.
TypedValues == {PyBool(TRUE), PyFloat(1), PyInt(1), PyStr("s"), None}
TypedContents(w) ==
    {<<>>} \cup
    {<<first>> \o rest : first \in [1..w -> TypedValues],
                         rest \in UNION {[1..n -> SampleRows(w)] : n \in 0..(MaxRows - 1)}}

InitType ==
    \E w \in Widths :
        \E header \in SampleHeaders(w), content \in TypedContents(w) :
            Construct(header, content)

NextType == GetColumnClass

SpecType == InitType /\ [][NextType]_vars

\* SpecShared: tables made by ScopeTable() with no argument.
InitShared ==
    /\ models = <<DefaultModel>>
    /\ tables = <<>>
    /\ fired = BaseScopeDataModel(<<>>, <<>>).fired
    /\ last = [op |-> "class ScopeTable"]

NextShared ==
    \/ NewScopeTable
    \/ SetModel
    \/ SelectAllMenuPressed

SpecShared == InitShared /\ [][NextShared]_vars

(* -------------------------------- claims -------------------------------- *)
TheModel == ModelOf(1)
Flag(m, r) == getValueAt(m, r, 0)
SuppliedNames(m) == Len(m.header) - 1

\* C1: in every state column_count() is 1 + the number of caller-supplied
\* header names installed, and every stored row has column_count() cells.
C1_ShapeInvariant ==
    \A t \in 1..Len(tables) :
        LET m == ModelOf(t)
        IN /\ getColumnCount(m) = 1 + SuppliedNames(m)
           /\ \A r \in 1..Len(m.content) : Len(m.content[r]) = getColumnCount(m)

\* C2: right after construction with header H and content C, column_count()
\* is len(H) + 1, row_count() is len(C), column_name(0) is "Process" and
\* column_name(i + 1) is H[i].
C2_Construction ==
    last.op = "construct" =>
        /\ getColumnCount(TheModel) = Len(last.header) + 1
        /\ getRowCount(TheModel) = Len(last.content)
        /\ getColumnName(TheModel, 0) = PyStr("Process")
        /\ \A i \in 0..(Len(last.header) - 1) :
               getColumnName(TheModel, i + 1) = Item(last.header, i)

C2_Witness ==
    /\ last.op = "construct"
    /\ Len(last.header) = 2
    /\ Len(last.content) = 2
    /\ getColumnName(TheModel, 2) = PyStr("a2")

ExpectedTag(cell) ==
    CASE cell.type = "bool" -> PyStr("Boolean")
      [] cell.type = "float" -> PyStr("Float")
      [] cell.type = "int" -> PyStr("Integer")
      [] OTHER -> PyStr("String")

\* C3: column_type(col) is the boolean, float or integer tag when the cell
\* at (row 0, col) is of that type, the text tag for a string or any other
\* type and for a model without rows, and the call never fails.
C3_ColumnType ==
    last.op = "get_type_at" =>
        LET m == ModelOf(last.t)
        IN /\ Len(m.content) = 0 => last.result = PyStr("String")
           /\ (Len(m.content) > 0 /\ last.column_index < Len(m.content[1])) =>
                  /\ ~Raised(last.result)
                  /\ last.result = ExpectedTag(m.content[1][last.column_index + 1])

\* one step of a selected-rows menu action, against the model before it
C4_Step ==
    last'.op \in {"select_selected", "unselect_selected"} =>
        LET before == models[tables[last'.t].data_model]
            after == models'[tables'[last'.t].data_model]
            value == PyBool(last'.op = "select_selected")
            target == {last'.sorter[last'.selected_rows[k] + 1] :
                           k \in 1..Len(last'.selected_rows)}
        IN /\ after.header = before.header
           /\ after.row_count = before.row_count
           /\ after.column_count = before.column_count
           /\ Len(after.content) = Len(before.content)
           /\ \A r \in 1..Len(before.content) :
                  /\ Len(after.content[r]) = Len(before.content[r])
                  /\ \A c \in 1..Len(before.content[r]) :
                         after.content[r][c] =
                             IF c = 1 /\ (r - 1) \in target
                             THEN value ELSE before.content[r][c]

\* C4: "Check all selected rows" ("Uncheck ...") sets the flag of exactly
\* the model rows that the selected view rows translate to, under any
\* view-to-model permutation, and changes no other flag and no other cell.
C4_SelectedRows == [][C4_Step]_vars

C4_Witness ==
    /\ last.op = "select_selected"
    /\ last.sorter = <<1, 0>>
    /\ last.selected_rows = <<0>>
    /\ Flag(ModelOf(last.t), 1) = PyBool(TRUE)
    /\ Flag(ModelOf(last.t), 0) = PyBool(FALSE)

\* C5: a ScopeTable made without a model argument is bound to an empty
\* model (no rows, no caller-supplied header names), whatever was done to
\* other tables made the same way.
C5_FreshDefault ==
    last.op = "ScopeTable" =>
        /\ getRowCount(ModelOf(last.t)) = 0
        /\ SuppliedNames(ModelOf(last.t)) = 0

\* C6: "Invert selection" twice in a row gives every flag the value it had
\* before the first, and changes neither counts, header nor other cells.
C6_InvertTwice ==
    (last.op = "invert" /\ last.count = 2) => ModelOf(last.t) = last.orig

C6_Witness ==
    /\ last.op = "invert"
    /\ last.count = 2
    /\ getRowCount(TheModel) = 2
    /\ Flag(TheModel, 0) = PyBool(TRUE)
    /\ Flag(TheModel, 1) = PyBool(FALSE)

\* C7: after "Check all rows" every stored row's flag is true, after
\* "Uncheck all rows" every stored row's flag is false.
C7_AllRows ==
    last.op \in {"select_all", "unselect_all"} =>
        \A r \in 0..(Len(ModelOf(last.t).content) - 1) :
            Flag(ModelOf(last.t), r) = PyBool(last.op = "select_all")

C7_Witness ==
    /\ last.op = "select_all"
    /\ Len(TheModel.content) = 2
    /\ Flag(TheModel, 1) = PyBool(TRUE)
    /\ SuppliedNames(TheModel) # Len(TheModel.content[1]) - 1

\* C8: after set_content(C), alone or as the second half of set_model,
\* row_count() is len(C), no other row is stored, every flag is false and
\* value_at(row, col + 1) is C[row][col].
C8_SetContent ==
    last.op \in {"set_content", "set_model"} =>
        /\ getRowCount(TheModel) = Len(last.rows)
        /\ Len(TheModel.content) = Len(last.rows)
        /\ \A row \in 0..(Len(last.rows) - 1) :
               /\ Flag(TheModel, row) = PyBool(FALSE)
               /\ Len(Item(TheModel.content, row)) = Len(Item(last.rows, row)) + 1
               /\ \A col \in 0..(Len(Item(last.rows, row)) - 1) :
                      getValueAt(TheModel, row, col + 1) = Item(Item(last.rows, row), col)

C8_Witness ==
    /\ last.op = "set_content"
    /\ Len(last.rows) = 2
    /\ getValueAt(TheModel, 0, 2) = PyInt(2)
    /\ getValueAt(TheModel, 1, 1) = PyStr("s1")

\* C9: column_name(index) is the stored header name at index when
\* 0 <= index < len(stored header), and null for every other integer.
C9_ColumnName ==
    \A t \in 1..Len(tables) : \A index \in (-MaxIndex)..MaxIndex :
        getColumnName(ModelOf(t), index) =
            IF 0 <= index /\ index < Len(ModelOf(t).header)
            THEN ModelOf(t).header[index + 1] ELSE None

ReadsInRange(n) ==
    \A r \in 0..(n.row_count - 1), c \in 0..(n.column_count - 1) :
        r < Len(n.widths) /\ c < n.widths[r + 1]

\* C10: at every notification and in every state between operations, every
\* read below the reported row and column counts addresses a stored cell.
C10_ReadsInRange ==
    /\ \A k \in 1..Len(fired) : ReadsInRange(fired[k])
    /\ \A t \in 1..Len(tables) :
           \A r \in 0..(getRowCount(ModelOf(t)) - 1),
              c \in 0..(getColumnCount(ModelOf(t)) - 1) :
               ~Raised(getValueAt(ModelOf(t), r, c))

====
